---- MODULE Spec2Model ----
(***************************************************************************)
(* MiniQuery compiler: semantic analysis, IR generation, the optimizer's   *)
(* three passes and the IR interpreter, as a state machine.                *)
(*                                                                         *)
(* Python values are tagged records: a str is [k |-> "str", s |-> chars],  *)
(* a list of ints [k |-> "list", items |-> seq], an int                    *)
(* [k |-> "int", n |-> i], a tuple of two ints [k |-> "tuple", lo, hi],    *)
(* None is [k |-> "none"].  A str is the sequence of its characters, so    *)
(* that str.startswith and f-string formatting are computed.               *)
(***************************************************************************)
EXTENDS Integers, Sequences, FiniteSets, TLC

VARIABLES
    pc,            \* position of main.run_single_file / of the hand-written driver
    program,       \* ProgramNode.statements built by Parser.parse
    symbols,       \* SemanticAnalyzer.symbols : name -> type
    instructions,  \* IRGenerator.instructions
    temp_counter,  \* IRGenerator.temp_counter
    ir,            \* the raw instruction list handed to the optimizer
    folded,        \* result of Optimizer.constant_folding
    propagated,    \* result of Optimizer.copy_propagation
    optimized,     \* result of Optimizer.dead_code_elimination
    env,           \* CodeGenerator.env
    stdout,        \* lines printed by CodeGenerator._exec_print, in order
    error,         \* the RuntimeErrorMiniQuery raised by run, or None
    ip,            \* index of the next instruction of CodeGenerator.run's loop
    raw_run,       \* outcome of the finished run of the raw IR
    second,        \* the list a CodeGenerator is given after it ran another one
    fresh_run,     \* outcome of the run of that list on a CodeGenerator of its own
    ir1,           \* what an earlier IRGenerator.generate call returned
    ir1_at_return  \* the instructions ir1 held when that call returned

\* the variables of a second use of one CodeGenerator or one IRGenerator
second_use == <<second, fresh_run, ir1, ir1_at_return>>

vars == <<pc, program, symbols, instructions, temp_counter, ir, folded,
          propagated, optimized, env, stdout, error, ip, raw_run, second_use>>

----------------------------------------------------------------------------
(* Bounds *)

\* longest program (number of statements) the parser is given
MaxStmts == 3
\* longest hand-written instruction list
MaxInstrs == 4

----------------------------------------------------------------------------
(* Python values *)

None == [k |-> "none"]
PyStr(chars) == [k |-> "str", s |-> chars]
PyList(items) == [k |-> "list", items |-> items]
PyInt(i) == [k |-> "int", n |-> i]
PyTuple(a, b) == [k |-> "tuple", lo |-> a, hi |-> b]

IsStr(v) == v.k = "str"
IsList(v) == v.k = "list"

DigitChars == <<"0", "1", "2", "3", "4", "5", "6", "7", "8", "9">>

\* str(n) for n >= 0
RECURSIVE NatToStr(_)
NatToStr(i) ==
    IF i < 10 THEN <<DigitChars[i + 1]>>
    ELSE NatToStr(i \div 10) \o <<DigitChars[(i % 10) + 1]>>

\* str(n) of a Python int
IntToStr(i) == IF i < 0 THEN <<"-">> \o NatToStr(0 - i) ELSE NatToStr(i)

\* s.startswith(p) on character sequences
StartsWith(s, p) == Len(s) >= Len(p) /\ SubSeq(s, 1, Len(p)) = p

\* the identifiers used by the programs and instruction lists below
nums == <<"n", "u", "m", "s">>
total == <<"t", "o", "t", "a", "l">>
user_t1 == <<"_", "t", "1">>

----------------------------------------------------------------------------
(* parser.py: AST nodes *)

DataDeclarationNode(name, values) ==
    [node |-> "DataDeclarationNode", name |-> name, values |-> values]
SelectQueryNode(condition, source) ==
    [node |-> "SelectQueryNode", condition |-> condition, source |-> source]
FilterQueryNode(mode, source) ==
    [node |-> "FilterQueryNode", mode |-> mode, source |-> source]
AggregationNode(func, source) ==
    [node |-> "AggregationNode", func |-> func, source |-> source]
AssignmentNode(target, expr) ==
    [node |-> "AssignmentNode", target |-> target, expr |-> expr]
PrintNode(target) ==
    [node |-> "PrintNode", target |-> target]

\* the statements Parser.statement is given to choose from
DataNames == {nums, user_t1}
Literals == {<<1, 2, 3, 4, 10, 15>>}
Targets == {nums, total, user_t1}
Sources == {nums, total, user_t1}
Conditions == {<<">", 5>>, <<">", 100>>, <<"between", 2, 10>>}
Modes == {"even"}
Funcs == {"sum", "max"}

Exprs ==
    {SelectQueryNode(c, s) : c \in Conditions, s \in Sources}
    \cup {FilterQueryNode(m, s) : m \in Modes, s \in Sources}
    \cup {AggregationNode(f, s) : f \in Funcs, s \in Sources}

Statements ==
    {DataDeclarationNode(n, v) : n \in DataNames, v \in Literals}
    \cup {AssignmentNode(t, e) : t \in Targets, e \in Exprs}
    \cup Exprs
    \cup {PrintNode(t) : t \in Targets}

----------------------------------------------------------------------------
(* semantic.py: SemanticAnalyzer.  A check returns [ok, symbols]; ok FALSE *)
(* is a raised SemanticError.                                              *)

Accept(syms) == [ok |-> TRUE, symbols |-> syms]
SemanticError(syms) == [ok |-> FALSE, symbols |-> syms]

Bind(f, key, val) == [x \in (DOMAIN f) \cup {key} |-> IF x = key THEN val ELSE f[x]]

_require_list_symbol(syms, name) ==
    name \in DOMAIN syms /\ syms[name] = "list<int>"

\* _infer_select, _infer_filter, _infer_aggregation: the type, or "error"
_infer_expr(syms, node) ==
    IF node.node = "SelectQueryNode" THEN
        IF ~_require_list_symbol(syms, node.source) THEN "error"
        ELSE IF node.condition[1] \in {">", "<", "=", "between"} THEN "list<int>"
        ELSE "error"
    ELSE IF node.node = "FilterQueryNode" THEN
        IF ~_require_list_symbol(syms, node.source) THEN "error"
        ELSE IF node.mode \in {"even", "odd"} THEN "list<int>"
        ELSE "error"
    ELSE IF node.node = "AggregationNode" THEN
        IF ~_require_list_symbol(syms, node.source) THEN "error"
        ELSE IF node.func \in {"sum", "max", "min", "count"} THEN "int"
        ELSE "error"
    ELSE "error"

_check_data_decl(syms, node) ==
    IF node.name \in DOMAIN syms THEN SemanticError(syms)
    ELSE Accept(Bind(syms, node.name, "list<int>"))

_check_assignment(syms, node) ==
    LET expr_type == _infer_expr(syms, node.expr) IN
    IF expr_type = "error" THEN SemanticError(syms)
    ELSE IF node.target \in DOMAIN syms THEN
        IF syms[node.target] # expr_type THEN SemanticError(syms)
        ELSE Accept(syms)
    ELSE Accept(Bind(syms, node.target, expr_type))

_check_print(syms, node) ==
    IF node.target \notin DOMAIN syms THEN SemanticError(syms) ELSE Accept(syms)

_check_statement(syms, node) ==
    IF node.node = "DataDeclarationNode" THEN _check_data_decl(syms, node)
    ELSE IF node.node = "AssignmentNode" THEN _check_assignment(syms, node)
    ELSE IF node.node \in {"SelectQueryNode", "FilterQueryNode", "AggregationNode"} THEN
        IF _infer_expr(syms, node) = "error" THEN SemanticError(syms) ELSE Accept(syms)
    ELSE IF node.node = "PrintNode" THEN _check_print(syms, node)
    ELSE SemanticError(syms)

----------------------------------------------------------------------------
(* ir_generator.py: IRInstruction and IRGenerator.  The generator's state  *)
(* is the record g = [instructions, temp_counter].                         *)

IRInstruction(op, arg1, arg2, result) ==
    [op |-> op, arg1 |-> arg1, arg2 |-> arg2, result |-> result]

\* f"_t{self.temp_counter}"
TempName(counter) == <<"_", "t">> \o IntToStr(counter)

\* new_temp without the increment
new_temp_stuck(g) == g.temp_counter

\* new_temp: the counter after the increment; the name is TempName of it
new_temp(g) == g.temp_counter + 1

Emit(g, counter, instr) ==
    [instructions |-> Append(g.instructions, instr), temp_counter |-> counter]

_gen_data_decl(g, node) ==
    Emit(g, g.temp_counter,
         IRInstruction("LIST", PyList(node.values), None, PyStr(node.name)))

SelectOp(cond) ==
    CASE cond[1] = ">" -> "FILTER_GT"
      [] cond[1] = "<" -> "FILTER_LT"
      [] cond[1] = "=" -> "FILTER_EQ"
      [] cond[1] = "between" -> "FILTER_BETWEEN"

_gen_select(g, node) ==
    LET c == new_temp(g)
        cond == node.condition
        arg2 == IF cond[1] = "between" THEN PyTuple(cond[2], cond[3]) ELSE PyInt(cond[2])
    IN Emit(g, c, IRInstruction(SelectOp(cond), PyStr(node.source), arg2, PyStr(TempName(c))))

_gen_filter(g, node) ==
    LET c == new_temp(g)
        op == IF node.mode = "even" THEN "FILTER_EVEN" ELSE "FILTER_ODD"
    IN Emit(g, c, IRInstruction(op, PyStr(node.source), None, PyStr(TempName(c))))

AggOp(func) ==
    CASE func = "sum" -> "AGG_SUM"
      [] func = "max" -> "AGG_MAX"
      [] func = "min" -> "AGG_MIN"
      [] func = "count" -> "AGG_COUNT"

_gen_aggregation(g, node) ==
    LET c == new_temp(g)
    IN Emit(g, c, IRInstruction(AggOp(node.func), PyStr(node.source), None, PyStr(TempName(c))))

\* _gen_expr: the generator after the expression's instruction; the name it
\* returns is the result of the last instruction
_gen_expr(g, node) ==
    IF node.node = "SelectQueryNode" THEN _gen_select(g, node)
    ELSE IF node.node = "FilterQueryNode" THEN _gen_filter(g, node)
    ELSE _gen_aggregation(g, node)

_gen_assignment(g, node) ==
    LET g1 == _gen_expr(g, node.expr)
        rhs_name == g1.instructions[Len(g1.instructions)].result
    IN Emit(g1, g1.temp_counter,
            IRInstruction("ASSIGN", rhs_name, None, PyStr(node.target)))

_gen_print(g, node) ==
    Emit(g, g.temp_counter, IRInstruction("PRINT", PyStr(node.target), None, None))

_gen_statement(g, node) ==
    IF node.node = "DataDeclarationNode" THEN _gen_data_decl(g, node)
    ELSE IF node.node = "AssignmentNode" THEN _gen_assignment(g, node)
    ELSE IF node.node = "PrintNode" THEN _gen_print(g, node)
    ELSE _gen_expr(g, node)

RECURSIVE GenStatements(_, _)
GenStatements(g, stmts) ==
    IF stmts = <<>> THEN g
    ELSE GenStatements(_gen_statement(g, Head(stmts)), Tail(stmts))

\* IRGenerator.__init__
IRGenerator == [instructions |-> <<>>, temp_counter |-> 0]

\* generate that clears the list and leaves the counter where it is
generate_counter_kept(g, stmts) ==
    GenStatements([g EXCEPT !.instructions = <<>>], stmts)

\* generate, on the generator g: clear the list, reset the counter, one
\* _gen_statement per statement
generate(g, stmts) ==
    GenStatements([g EXCEPT !.instructions = <<>>, !.temp_counter = 0], stmts)

----------------------------------------------------------------------------
(* optimizer.py: Optimizer *)

FilterOps == {"FILTER_GT", "FILTER_LT", "FILTER_EQ", "FILTER_BETWEEN",
              "FILTER_EVEN", "FILTER_ODD"}
AggOps == {"AGG_SUM", "AGG_MAX", "AGG_MIN", "AGG_COUNT"}

\* instr.op.startswith("FILTER"), on the opcodes the generator emits
IsFilterOp(op) == op \in FilterOps

\* the condition of the list comprehension of each FILTER_* branch
FoldKeeps(op, arg2, x) ==
    CASE op = "FILTER_GT" -> x > arg2.n
      [] op = "FILTER_LT" -> x < arg2.n
      [] op = "FILTER_EQ" -> x = arg2.n
      [] op = "FILTER_BETWEEN" -> arg2.lo <= x /\ x <= arg2.hi
      [] op = "FILTER_EVEN" -> x % 2 = 0
      [] op = "FILTER_ODD" -> x % 2 # 0

\* folded = [x for x in raw_list if ...]
FoldFilter(op, arg2, raw_list) ==
    PyList(SelectSeq(raw_list.items, LAMBDA x : FoldKeeps(op, arg2, x)))

\* a folded result that is not recorded as known
RecordFoldedForgotten(list_constants, result, folded_list) == list_constants

\* list_constants[instr.result] = folded
RecordFolded(list_constants, result, folded_list) ==
    Bind(list_constants, result, folded_list)

\* the condition under which an instruction is folded
Foldable(instr, list_constants) ==
    IsFilterOp(instr.op) /\ instr.arg1 \in DOMAIN list_constants

RECURSIVE FoldLoop(_, _, _, _)
FoldLoop(input, i, list_constants, new_ir) ==
    IF i > Len(input) THEN new_ir
    ELSE LET instr == input[i] IN
        IF instr.op = "LIST" THEN
            FoldLoop(input, i + 1, Bind(list_constants, instr.result, instr.arg1),
                     Append(new_ir, instr))
        ELSE IF Foldable(instr, list_constants) THEN
            LET f == FoldFilter(instr.op, instr.arg2, list_constants[instr.arg1]) IN
            FoldLoop(input, i + 1, RecordFolded(list_constants, instr.result, f),
                     Append(new_ir, IRInstruction("LIST", f, None, instr.result)))
        ELSE FoldLoop(input, i + 1, list_constants, Append(new_ir, instr))

constant_folding(input) == FoldLoop(input, 1, <<>>, <<>>)

\* the prefix test with the two characters swapped
IsTempCopySwapped(instr) ==
    instr.op = "ASSIGN" /\ IsStr(instr.arg1) /\ StartsWith(instr.arg1.s, <<"t", "_">>)

\* instr.op == "ASSIGN" and isinstance(instr.arg1, str) and instr.arg1.startswith("_t")
IsTempCopy(instr) ==
    instr.op = "ASSIGN" /\ IsStr(instr.arg1) /\ StartsWith(instr.arg1.s, <<"_", "t">>)

\* the first loop of copy_propagation: the map after instructions 1..n
RECURSIVE propagation_map(_, _)
propagation_map(input, n) ==
    IF n = 0 THEN <<>>
    ELSE LET m == propagation_map(input, n - 1) IN
         IF IsTempCopy(input[n]) THEN Bind(m, input[n].result, input[n].arg1) ELSE m

\* a lookup that chases the map a second time
PropagateChased(m, arg) ==
    LET once == IF IsStr(arg) /\ arg \in DOMAIN m THEN m[arg] ELSE arg
    IN IF IsStr(once) /\ once \in DOMAIN m THEN m[once] ELSE once

\* propagation_map.get(arg, arg) for a str operand, the operand itself otherwise
Propagate(m, arg) == IF IsStr(arg) /\ arg \in DOMAIN m THEN m[arg] ELSE arg

\* the second loop runs with the map of the whole list
copy_propagation(input) ==
    LET m == propagation_map(input, Len(input)) IN
    [i \in 1..Len(input) |->
        IRInstruction(input[i].op, Propagate(m, input[i].arg1),
                      Propagate(m, input[i].arg2), input[i].result)]

\* a first loop that collects arg1 only
UsedNamesArg1Only(input) ==
    {input[i].arg1 : i \in {j \in 1..Len(input) : IsStr(input[j].arg1)}}

\* the first loop of dead_code_elimination
UsedNames(input) ==
    {input[i].arg1 : i \in {j \in 1..Len(input) : IsStr(input[j].arg1)}}
    \cup {input[i].arg2 : i \in {j \in 1..Len(input) : IsStr(input[j].arg2)}}

\* a test that spares every result that is not a temp
IsDeadTempOnly(instr, used) ==
    /\ instr.result # None
    /\ instr.result \notin used
    /\ StartsWith(instr.result.s, <<"_", "t">>)

\* instr.result is not None and instr.result not in used
IsDead(instr, used) == instr.result # None /\ instr.result \notin used

\* elimination repeated until nothing more is removed
RECURSIVE dead_code_elimination_fixpoint(_)
dead_code_elimination_fixpoint(input) ==
    LET used == UsedNames(input)
        kept == SelectSeq(input, LAMBDA instr : ~IsDead(instr, used))
    IN IF kept = input THEN input ELSE dead_code_elimination_fixpoint(kept)

dead_code_elimination(input) ==
    LET used == UsedNames(input) IN
    SelectSeq(input, LAMBDA instr : ~IsDead(instr, used))

----------------------------------------------------------------------------
(* codegen.py: CodeGenerator.  Executing one instruction gives the new env, *)
(* the line printed (or None) and the exception raised (or None).           *)

RuntimeErrorMiniQuery(msg, what) == [k |-> "RuntimeErrorMiniQuery", msg |-> msg, what |-> what]

Outcome(e, line, err) == [env |-> e, line |-> line, error |-> err]
Raise(e, err) == Outcome(e, None, err)

_exec_list(instr, e) ==
    IF ~IsList(instr.arg1) THEN
        Raise(e, RuntimeErrorMiniQuery("LIST instruction expects a list in arg1", None))
    ELSE Outcome(Bind(e, instr.result, instr.arg1), None, None)

\* a copy that reads the source with a default instead of raising
_exec_assign_default(instr, e) ==
    IF instr.arg1 \notin DOMAIN e THEN Outcome(Bind(e, instr.result, None), None, None)
    ELSE Outcome(Bind(e, instr.result, e[instr.arg1]), None, None)

_exec_assign(instr, e) ==
    IF instr.arg1 \notin DOMAIN e THEN
        Raise(e, RuntimeErrorMiniQuery("ASSIGN from unknown variable", instr.arg1))
    ELSE Outcome(Bind(e, instr.result, e[instr.arg1]), None, None)

\* between with both ends excluded
ExecKeepsExclusive(op, arg2, x) ==
    CASE op = "FILTER_GT" -> x > arg2.n
      [] op = "FILTER_LT" -> x < arg2.n
      [] op = "FILTER_EQ" -> x = arg2.n
      [] op = "FILTER_BETWEEN" -> arg2.lo < x /\ x < arg2.hi
      [] op = "FILTER_EVEN" -> x % 2 = 0
      [] op = "FILTER_ODD" -> x % 2 # 0

ExecKeeps(op, arg2, x) ==
    CASE op = "FILTER_GT" -> x > arg2.n
      [] op = "FILTER_LT" -> x < arg2.n
      [] op = "FILTER_EQ" -> x = arg2.n
      [] op = "FILTER_BETWEEN" -> arg2.lo <= x /\ x <= arg2.hi
      [] op = "FILTER_EVEN" -> x % 2 = 0
      [] op = "FILTER_ODD" -> x % 2 # 0

_exec_filter(instr, e) ==
    IF instr.arg1 \notin DOMAIN e THEN
        Raise(e, RuntimeErrorMiniQuery("FILTER from unknown variable", instr.arg1))
    ELSE IF ~IsList(e[instr.arg1]) THEN
        Raise(e, RuntimeErrorMiniQuery("FILTER expects list, got", PyStr(e[instr.arg1].k)))
    ELSE Outcome(Bind(e, instr.result,
                      PyList(SelectSeq(e[instr.arg1].items,
                                       LAMBDA x : ExecKeeps(instr.op, instr.arg2, x)))),
                 None, None)

RECURSIVE SumSeq(_)
SumSeq(s) == IF s = <<>> THEN 0 ELSE Head(s) + SumSeq(Tail(s))

MaxSeq(s) == CHOOSE x \in {s[i] : i \in 1..Len(s)} : \A j \in 1..Len(s) : s[j] <= x
\* min written as max
MinSeqAsMax(s) == MaxSeq(s)

MinSeq(s) == CHOOSE x \in {s[i] : i \in 1..Len(s)} : \A j \in 1..Len(s) : x <= s[j]

_exec_aggregation(instr, e) ==
    IF instr.arg1 \notin DOMAIN e THEN
        Raise(e, RuntimeErrorMiniQuery("AGG from unknown variable", instr.arg1))
    ELSE IF ~IsList(e[instr.arg1]) THEN
        Raise(e, RuntimeErrorMiniQuery("AGG expects list, got", PyStr(e[instr.arg1].k)))
    ELSE LET src_val == e[instr.arg1].items
             value == CASE instr.op = "AGG_SUM" -> PyInt(SumSeq(src_val))
                        [] instr.op = "AGG_MAX" ->
                             IF src_val # <<>> THEN PyInt(MaxSeq(src_val)) ELSE None
                        [] instr.op = "AGG_MIN" ->
                             IF src_val # <<>> THEN PyInt(MinSeq(src_val)) ELSE None
                        [] instr.op = "AGG_COUNT" -> PyInt(Len(src_val))
         IN Outcome(Bind(e, instr.result, value), None, None)

\* ", ".join of the elements' str()
RECURSIVE JoinInts(_)
JoinInts(items) ==
    IF items = <<>> THEN <<>>
    ELSE IF Len(items) = 1 THEN IntToStr(items[1])
    ELSE IntToStr(items[1]) \o <<",", " ">> \o JoinInts(Tail(items))

\* str(value), as print writes it
Render(value) ==
    CASE value.k = "list" -> <<"[">> \o JoinInts(value.items) \o <<"]">>
      [] value.k = "int" -> IntToStr(value.n)
      [] value.k = "none" -> <<"N", "o", "n", "e">>

_exec_print(instr, e) ==
    IF instr.arg1 \notin DOMAIN e THEN
        Raise(e, RuntimeErrorMiniQuery("PRINT of unknown variable", instr.arg1))
    ELSE Outcome(e, PyStr(Render(e[instr.arg1])), None)

\* the dispatch of run's loop body
Execute(instr, e) ==
    IF instr.op = "LIST" THEN _exec_list(instr, e)
    ELSE IF instr.op = "ASSIGN" THEN _exec_assign(instr, e)
    ELSE IF instr.op \in FilterOps THEN _exec_filter(instr, e)
    ELSE IF instr.op \in AggOps THEN _exec_aggregation(instr, e)
    ELSE IF instr.op = "PRINT" THEN _exec_print(instr, e)
    ELSE Raise(e, RuntimeErrorMiniQuery("Unknown IR operation", PyStr(instr.op)))

----------------------------------------------------------------------------
(* The pipeline of main.run_single_file, one action per call, and the      *)
(* interpreter loop one instruction per step.  The raw IR is executed      *)
(* first, on a CodeGenerator of its own, then the optimized IR.            *)

Fresh ==
    /\ instructions = <<>>
    /\ temp_counter = 0
    /\ ir = <<>>
    /\ folded = <<>>
    /\ propagated = <<>>
    /\ optimized = <<>>
    /\ env = <<>>
    /\ stdout = <<>>
    /\ error = None
    /\ ip = 1
    /\ raw_run = None
    /\ second = <<>>
    /\ fresh_run = None
    /\ ir1 = None
    /\ ir1_at_return = <<>>
    /\ program = <<>>
    /\ symbols = <<>>

Init == pc = "parse" /\ Fresh

\* Parser.parse appends one statement and SemanticAnalyzer._check_statement
\* checks it; a SemanticError ends the pipeline
analyze ==
    /\ pc = "parse"
    /\ Len(program) < MaxStmts
    /\ \E stmt \in Statements :
          LET r == _check_statement(symbols, stmt) IN
          IF r.ok
          THEN /\ program' = Append(program, stmt)
               /\ symbols' = r.symbols
               /\ pc' = pc
          ELSE /\ pc' = "rejected"
               /\ UNCHANGED <<program, symbols>>
    /\ UNCHANGED <<instructions, temp_counter, ir, folded, propagated, optimized,
                   env, stdout, error, ip, raw_run, second_use>>

\* ir = irgen.generate(ast)
Generate ==
    /\ pc = "parse"
    /\ LET g == generate([instructions |-> instructions,
                           temp_counter |-> temp_counter], program) IN
          /\ instructions' = g.instructions
          /\ temp_counter' = g.temp_counter
          /\ ir' = g.instructions
    /\ pc' = "generated"
    /\ UNCHANGED <<program, symbols, folded, propagated, optimized,
                   env, stdout, error, ip, raw_run, second_use>>

\* Optimizer.optimize, first pass
ConstantFolding ==
    /\ pc \in {"generated", "written"}
    /\ folded' = constant_folding(ir)
    /\ pc' = "folded"
    /\ UNCHANGED <<program, symbols, instructions, temp_counter, ir, propagated,
                   optimized, env, stdout, error, ip, raw_run, second_use>>

\* Optimizer.optimize, second pass
CopyPropagation ==
    /\ pc = "folded"
    /\ propagated' = copy_propagation(folded)
    /\ pc' = "propagated"
    /\ UNCHANGED <<program, symbols, instructions, temp_counter, ir, folded,
                   optimized, env, stdout, error, ip, raw_run, second_use>>

\* Optimizer.optimize, third pass
DeadCodeElimination ==
    /\ pc = "propagated"
    /\ optimized' = dead_code_elimination(propagated)
    /\ pc' = "optimized"
    /\ UNCHANGED <<program, symbols, instructions, temp_counter, ir, folded,
                   propagated, env, stdout, error, ip, raw_run, second_use>>

\* the positions of the drivers at which a CodeGenerator is inside run
RunPcs == {"run_raw", "run_opt", "run_fresh", "run_second"}

\* the list the running CodeGenerator was given
Running ==
    CASE pc = "run_raw" -> ir
      [] pc \in {"run_fresh", "run_second"} -> second
      [] OTHER -> optimized

\* run has returned or raised
Finished == error # None \/ ip > Len(Running)

\* CodeGenerator().run(ir): self.env.clear()
RunRaw ==
    /\ pc = "optimized"
    /\ pc' = "run_raw"
    /\ env' = <<>>
    /\ stdout' = <<>>
    /\ error' = None
    /\ ip' = 1
    /\ UNCHANGED <<program, symbols, instructions, temp_counter, ir, folded,
                   propagated, optimized, raw_run, second_use>>

\* a loop that goes on to the next instruction after one has raised
StepPastFailure ==
    /\ pc \in RunPcs
    /\ ip <= Len(Running)
    /\ LET r == Execute(Running[ip], env) IN
          /\ env' = r.env
          /\ stdout' = IF r.line = None THEN stdout ELSE Append(stdout, r.line.s)
          /\ error' = IF r.error = None THEN error ELSE r.error
          /\ ip' = ip + 1
    /\ UNCHANGED <<pc, program, symbols, instructions, temp_counter, ir, folded,
                   propagated, optimized, raw_run, second_use>>

\* one iteration of run's loop
Step ==
    /\ pc \in RunPcs
    /\ ~Finished
    /\ LET r == Execute(Running[ip], env) IN
          /\ env' = r.env
          /\ stdout' = IF r.line = None THEN stdout ELSE Append(stdout, r.line.s)
          /\ error' = r.error
          /\ ip' = IF r.error = None THEN ip + 1 ELSE ip
    /\ UNCHANGED <<pc, program, symbols, instructions, temp_counter, ir, folded,
                   propagated, optimized, raw_run, second_use>>

\* CodeGenerator().run(optimized_ir), once the raw run is over
RunOptimized ==
    /\ pc = "run_raw"
    /\ Finished
    /\ raw_run' = [stdout |-> stdout, error |-> error]
    /\ pc' = "run_opt"
    /\ env' = <<>>
    /\ stdout' = <<>>
    /\ error' = None
    /\ ip' = 1
    /\ UNCHANGED <<program, symbols, instructions, temp_counter, ir, folded,
                   propagated, optimized, second_use>>

Done == pc = "run_opt" /\ Finished

Next ==
    \/ analyze
    \/ Generate
    \/ ConstantFolding
    \/ CopyPropagation
    \/ DeadCodeElimination
    \/ RunRaw
    \/ Step
    \/ RunOptimized

Spec == Init /\ [][Next]_vars

----------------------------------------------------------------------------
(* The optimizer on hand-written instruction lists: a driver appends       *)
(* instructions to a list and hands it to the three passes.                *)

t1 == TempName(1)
t2 == TempName(2)

HandWritten ==
    {IRInstruction("LIST", PyList(<<1, 2, 3, 4, 10, 15>>), None, PyStr(nums))}
    \cup {IRInstruction("FILTER_GT", PyStr(nums), PyInt(5), PyStr(t1)),
          IRInstruction("FILTER_EQ", PyStr(nums), PyInt(10), PyStr(t1)),
          IRInstruction("FILTER_GT", PyStr(nums), PyInt(100), PyStr(t2)),
          IRInstruction("FILTER_BETWEEN", PyStr(total), PyTuple(2, 10), PyStr(t2))}
    \cup {IRInstruction(op, PyStr(t1), None, PyStr(t2)) : op \in {"FILTER_EVEN", "FILTER_ODD"}}
    \cup {IRInstruction(op, PyStr(nums), None, PyStr(t1)) : op \in {"AGG_SUM", "AGG_COUNT"}}
    \cup {IRInstruction("ASSIGN", PyStr(t1), None, PyStr(total)),
          IRInstruction("ASSIGN", PyStr(t2), None, PyStr(t1))}
    \cup {IRInstruction("PRINT", PyStr(total), None, None),
          IRInstruction("PRINT", PyStr(total), PyStr(nums), None)}

InitIR == pc = "written" /\ Fresh

\* the driver appends one instruction
Write ==
    /\ pc = "written"
    /\ Len(ir) < MaxInstrs
    /\ \E instr \in HandWritten : ir' = Append(ir, instr)
    /\ UNCHANGED <<pc, program, symbols, instructions, temp_counter, folded,
                   propagated, optimized, env, stdout, error, ip, raw_run, second_use>>

NextIR ==
    \/ Write
    \/ ConstantFolding
    \/ CopyPropagation
    \/ DeadCodeElimination

SpecIR == InitIR /\ [][NextIR]_vars

----------------------------------------------------------------------------
(* Properties *)

Optimized == pc \in {"optimized", "run_raw", "run_opt"}
Propagated == pc = "propagated" \/ Optimized
Folded == pc = "folded" \/ Propagated

\* no identifier of the program begins with "_t"
PlainNames == \A name \in DOMAIN symbols : ~StartsWith(name, <<"_", "t">>)

Elements(seq) == {seq[i] : i \in 1..Len(seq)}

\* the name operands of an instruction
NameOperands(instr) == {a \in {instr.arg1, instr.arg2} : a.k = "str"}

Literal6 == <<1, 2, 3, 4, 10, 15>>

\* data nums = [1,2,3,4,10,15]   total = sum from nums   print total
ScenarioA ==
    <<DataDeclarationNode(nums, Literal6),
      AssignmentNode(total, AggregationNode("sum", nums)),
      PrintNode(total)>>

\* C1: for every program the validator accepts, executing the optimized IR
\* prints the same lines, and fails or does not fail, as executing the raw IR.
\* Stated for the programs none of whose identifiers begins with "_t", which
\* the claim covers: a violation does not rest on a user name that looks like a temp.
C1_OptimizedRunEqualsRawRun ==
    (Done /\ PlainNames) =>
        /\ stdout = raw_run.stdout
        /\ (error = None) <=> (raw_run.error = None)

\* C2 as stated: the optimized IR of scenario A still holds all four
\* instructions, the copy into total among them.
C2_ScenarioAKeepsFour ==
    (program = ScenarioA /\ Optimized) =>
        /\ Len(optimized) = 4
        /\ \E i \in 1..Len(optimized) :
              optimized[i].op = "ASSIGN" /\ optimized[i].result = PyStr(total)

\* C2 amended: the optimized IR of scenario A holds three instructions, the
\* list-materialize, the aggregate-sum and the output, which reads the temp _t1;
\* the copy into total is removed, and the run still prints 35.
C2_ScenarioADropsCopy ==
    (program = ScenarioA /\ Optimized) =>
        /\ Len(ir) = 4
        /\ optimized = <<IRInstruction("LIST", PyList(Literal6), None, PyStr(nums)),
                         IRInstruction("AGG_SUM", PyStr(nums), None, PyStr(<<"_", "t", "1">>)),
                         IRInstruction("PRINT", PyStr(<<"_", "t", "1">>), None, None)>>
        /\ Done => stdout = <<<<"3", "5">>>> /\ error = None

C2_ScenarioAOptimizedAndRun == program = ScenarioA /\ Done

\* the predicates of section 4.2: strict comparisons, inclusive between, parity
Satisfies(op, arg2, x) ==
    \/ op = "FILTER_GT" /\ x > arg2.n
    \/ op = "FILTER_LT" /\ x < arg2.n
    \/ op = "FILTER_EQ" /\ x = arg2.n
    \/ op = "FILTER_BETWEEN" /\ x >= arg2.lo /\ x <= arg2.hi
    \/ op = "FILTER_EVEN" /\ x % 2 = 0
    \/ op = "FILTER_ODD" /\ x % 2 = 1

\* seq is the subsequence of src of the elements satisfying the predicate:
\* its elements are those of src at the satisfying positions, in order
RECURSIVE SatisfyingPositions(_, _, _, _)
SatisfyingPositions(op, arg2, src, n) ==
    IF n = 0 THEN <<>>
    ELSE LET before == SatisfyingPositions(op, arg2, src, n - 1) IN
         IF Satisfies(op, arg2, src[n]) THEN Append(before, n) ELSE before

IsFiltered(seq, op, arg2, src) ==
    LET pos == SatisfyingPositions(op, arg2, src, Len(src)) IN
    /\ Len(seq) = Len(pos)
    /\ \A n \in 1..Len(pos) : seq[n] = src[pos[n]]

\* the list-materialize instructions of `out` before position i that bind `name`
EarlierLists(out, i, name) ==
    {j \in 1..(i - 1) : out[j].op = "LIST" /\ out[j].result = name}

Last(S) == CHOOSE j \in S : \A l \in S : l <= j

\* C3: constant folding keeps the length; a filter whose source names the
\* result of an earlier list-materialize (original or produced by folding) is
\* replaced in place, with the same result, by a list-materialize of exactly the
\* satisfying source elements in order; every other instruction, aggregates over
\* known lists included, is unchanged.
C3_FoldingReplacesKnownFilters ==
    Folded =>
        /\ Len(folded) = Len(ir)
        /\ \A i \in 1..Len(ir) :
              LET known == EarlierLists(folded, i, ir[i].arg1) IN
              IF ir[i].op \in FilterOps /\ known # {}
              THEN /\ folded[i].op = "LIST"
                   /\ folded[i].result = ir[i].result
                   /\ folded[i].arg2 = None
                   /\ folded[i].arg1.k = "list"
                   /\ IsFiltered(folded[i].arg1.items, ir[i].op, ir[i].arg2,
                                 folded[Last(known)].arg1.items)
              ELSE folded[i] = ir[i]

\* a filter on a folded filter's result was folded, an element was dropped, an
\* element was kept, and an aggregate over a known list was passed through
C3_ChainFoldedBesideAggregate ==
    /\ Folded
    /\ \E i, j, a \in 1..Len(ir) :
          /\ j < i
          /\ ir[j].op \in FilterOps /\ folded[j].op = "LIST"
          /\ ir[i].op \in FilterOps /\ ir[i].arg1 = ir[j].result
          /\ folded[i].op = "LIST"
          /\ folded[i].arg1.items # <<>>
          /\ Len(folded[i].arg1.items) < Len(folded[j].arg1.items)
          /\ ir[a].op \in AggOps /\ EarlierLists(folded, a, ir[a].arg1) # {}
          /\ folded[a] = ir[a]

\* every name that is an operand (arg1 or arg2) of some instruction of the list
NamesUsed(list) == UNION {NameOperands(list[i]) : i \in 1..Len(list)}

\* the positions 1..n of the instructions with no result or with a used result
RECURSIVE LivePositions(_, _)
LivePositions(list, n) ==
    IF n = 0 THEN <<>>
    ELSE LET before == LivePositions(list, n - 1) IN
         IF list[n].result = None \/ list[n].result \in NamesUsed(list)
         THEN Append(before, n) ELSE before

\* C4: dead-code elimination returns exactly the subsequence, in order, of the
\* instructions with no result or whose result name is an operand (arg1 or
\* arg2) of some instruction anywhere in its input; so a filter whose result
\* nothing uses is in no way part of the optimized IR.
C4_EliminationKeepsExactlyTheLive ==
    Optimized =>
        /\ LET pos == LivePositions(propagated, Len(propagated)) IN
              /\ Len(optimized) = Len(pos)
              /\ \A n \in 1..Len(pos) : optimized[n] = propagated[pos[n]]
        /\ \A i \in 1..Len(ir) :
              (ir[i].op \in FilterOps /\ ir[i].result \notin NamesUsed(ir)) =>
                  \A n \in 1..Len(optimized) : optimized[n].result # ir[i].result

\* select >100 from nums, unused, was folded and then removed, beside
\* instructions that stay: an output, and one whose result only an arg2 names
C4_BareSelectRemoved ==
    /\ Optimized
    /\ \E i \in 1..Len(ir) :
          /\ ir[i] = IRInstruction("FILTER_GT", PyStr(nums), PyInt(100), PyStr(<<"_", "t", "2">>))
          /\ folded[i].op = "LIST"
          /\ ir[i].result \notin NamesUsed(ir)
    /\ \E n \in 1..Len(optimized) : optimized[n].op = "PRINT"
    /\ \E n \in 1..Len(optimized) :
          /\ optimized[n].result # None
          /\ \A m \in 1..Len(propagated) : propagated[m].arg1 # optimized[n].result
    /\ Len(optimized) < Len(ir)

\* instruction i is removed by the pass
Removed(list, i) == list[i].result # None /\ list[i].result \notin NamesUsed(list)

\* the instructions of the list that read the result of instruction i
Readers(list, i) == {j \in 1..Len(list) : list[i].result \in NameOperands(list[j])}

\* instruction i's result is read, and only by instructions the pass removes
OnlyDeadReaders(list, i) ==
    /\ list[i].result # None
    /\ Readers(list, i) # {}
    /\ \A j \in Readers(list, i) : Removed(list, j)

ListThenUnusedSum ==
    <<IRInstruction("LIST", PyList(Literal6), None, PyStr(nums)),
      IRInstruction("AGG_SUM", PyStr(nums), None, PyStr(<<"_", "t", "1">>))>>

\* C5: the pass is not iterated: an instruction whose result is read only by
\* instructions that the same pass removes is kept; for LIST nums, AGG_SUM
\* nums -> _t1 the aggregate goes and the list stays, and a second application
\* removes the list as well.
C5_EliminationIsOnePass ==
    Optimized =>
        /\ \A i \in 1..Len(propagated) :
              OnlyDeadReaders(propagated, i) => propagated[i] \in Elements(optimized)
        /\ propagated = ListThenUnusedSum =>
              /\ optimized = <<ListThenUnusedSum[1]>>
              /\ dead_code_elimination(optimized) = <<>>

C5_ListOutlivesItsOnlyReader ==
    /\ Optimized
    /\ propagated = ListThenUnusedSum
    /\ OnlyDeadReaders(propagated, 1)
    /\ optimized # dead_code_elimination(optimized)

\* a name the code generator could have made: it begins with "_t"
TempLike(a) == a.k = "str" /\ Len(a.s) >= 2 /\ a.s[1] = "_" /\ a.s[2] = "t"

\* the copies "temp -> x" of the list
CopiesInto(list, x) ==
    {j \in 1..Len(list) : list[j].op = "ASSIGN" /\ TempLike(list[j].arg1) /\ list[j].result = x}

\* the substitute for operand a: the source of the last copy into a, if any
Substitute(list, a) ==
    IF a.k = "str" /\ CopiesInto(list, a) # {}
    THEN list[Last(CopiesInto(list, a))].arg1
    ELSE a

\* C6: copy propagation rewrites a reference to a user name x only in
\* instructions later in the list than the copy "temp -> x" that created the
\* substitution.  Stated for programs with no identifier beginning with "_t".
C6_RewritesOnlyLaterReferences ==
    (Propagated /\ PlainNames) =>
        \A i \in 1..Len(folded) :
            /\ propagated[i].arg1 # folded[i].arg1 =>
                  Last(CopiesInto(folded, folded[i].arg1)) < i
            /\ propagated[i].arg2 # folded[i].arg2 =>
                  Last(CopiesInto(folded, folded[i].arg2)) < i

\* C7: one lookup per operand: an operand x with a copy "a -> x" becomes a,
\* the source of the last such copy, also when a itself has a copy "b -> a";
\* other operands, the results, the opcodes and the length are unchanged.
C7_SingleLookup ==
    Propagated =>
        /\ Len(propagated) = Len(folded)
        /\ \A i \in 1..Len(folded) :
              /\ propagated[i].op = folded[i].op
              /\ propagated[i].result = folded[i].result
              /\ propagated[i].arg1 = Substitute(folded, folded[i].arg1)
              /\ propagated[i].arg2 = Substitute(folded, folded[i].arg2)

\* the map holds x -> a and a -> b with b different from a, and an operand x
\* was rewritten to a
C7_ChainNotChased ==
    /\ Propagated
    /\ \E i \in 1..Len(folded) :
          LET x == folded[i].arg1
              a == Substitute(folded, x)
              b == Substitute(folded, a)
          IN /\ a # x
             /\ b # a
             /\ propagated[i].arg1 = a

ScenarioAInstructions ==
    <<IRInstruction("LIST", PyList(Literal6), None, PyStr(nums)),
      IRInstruction("AGG_SUM", PyStr(nums), None, PyStr(<<"_", "t", "1">>)),
      IRInstruction("ASSIGN", PyStr(<<"_", "t", "1">>), None, PyStr(total)),
      IRInstruction("PRINT", PyStr(total), None, None)>>

\* dead-code elimination first, copy propagation second
EliminateThenPropagate(list) == copy_propagation(dead_code_elimination(list))

\* C8: the order of the passes shows: on LIST nums, AGG_SUM nums -> _t1,
\* ASSIGN _t1 -> total, PRINT total, elimination before propagation keeps all
\* four instructions, and the order of optimize keeps three.
C8_PassOrderShows ==
    (Optimized /\ ir = ScenarioAInstructions) =>
        /\ optimized # EliminateThenPropagate(folded)
        /\ Len(EliminateThenPropagate(folded)) = 4
        /\ optimized = <<ScenarioAInstructions[1], ScenarioAInstructions[2],
                         IRInstruction("PRINT", PyStr(<<"_", "t", "1">>), None, None)>>

C8_ScenarioAListOptimized ==
    /\ Optimized
    /\ ir = ScenarioAInstructions
    /\ Len(optimized) < Len(EliminateThenPropagate(folded))

\* every name operand is the result of a strictly earlier instruction
StraightLine(list) ==
    \A i \in 1..Len(list) :
        \A a \in NameOperands(list[i]) :
            \E j \in 1..(i - 1) : list[j].result = a

\* C9: in the raw IR and in the output of each pass, every name operand is the
\* result of a strictly earlier instruction of the same list.  Stated for
\* programs with no identifier beginning with "_t".
C9_OperandsDefinedEarlier ==
    PlainNames =>
        /\ StraightLine(ir)
        /\ Folded => StraightLine(folded)
        /\ Propagated => StraightLine(propagated)
        /\ Optimized => StraightLine(optimized)

\* C10 as stated: no two instructions of the raw IR have the same result name.
\* Stated for programs with no identifier beginning with "_t".
C10_EachResultWrittenOnce ==
    PlainNames =>
        \A i, j \in 1..Len(ir) :
            (i < j /\ ir[i].result # None) => ir[i].result # ir[j].result

\* C10 amended: in the raw IR no two filter or aggregate instructions have the
\* same result name, and no two list-materialize instructions have the same
\* result name; a user name is the result of one copy per assignment to it.
C10_TempsAndDeclarationsWrittenOnce ==
    \A i, j \in 1..Len(ir) :
        i < j =>
            /\ (ir[i].op \in FilterOps \cup AggOps /\ ir[j].op \in FilterOps \cup AggOps)
                  => ir[i].result # ir[j].result
            /\ (ir[i].op = "LIST" /\ ir[j].op = "LIST") => ir[i].result # ir[j].result

\* a program that assigns twice to one name: two copies with the same result,
\* fed by two different temps
C10_NameAssignedTwice ==
    /\ pc = "generated"
    /\ \E i, j \in 1..Len(ir) :
          /\ i < j
          /\ ir[i].op = "ASSIGN" /\ ir[j].op = "ASSIGN"
          /\ ir[i].result = ir[j].result
          /\ ir[i].arg1 # ir[j].arg1

----------------------------------------------------------------------------
(* lexer.py: Lexer.token_specification *)

Letters ==
    {"a", "b", "c", "d", "e", "f", "g", "h", "i", "j", "k", "l", "m",
     "n", "o", "p", "q", "r", "s", "t", "u", "v", "w", "x", "y", "z",
     "A", "B", "C", "D", "E", "F", "G", "H", "I", "J", "K", "L", "M",
     "N", "O", "P", "Q", "R", "S", "T", "U", "V", "W", "X", "Y", "Z"}

Digits == {DigitChars[i] : i \in 1..Len(DigitChars)}

\* KEYWORD: \b(data|select|filter|sum|max|min|count|between|from|even|odd|print|and)\b
Keywords ==
    {<<"d", "a", "t", "a">>, <<"s", "e", "l", "e", "c", "t">>,
     <<"f", "i", "l", "t", "e", "r">>, <<"s", "u", "m">>, <<"m", "a", "x">>,
     <<"m", "i", "n">>, <<"c", "o", "u", "n", "t">>,
     <<"b", "e", "t", "w", "e", "e", "n">>, <<"f", "r", "o", "m">>,
     <<"e", "v", "e", "n">>, <<"o", "d", "d">>, <<"p", "r", "i", "n", "t">>,
     <<"a", "n", "d">>}

\* the text s is tokenized as one ID token: it matches [A-Za-z_][A-Za-z0-9_]*
\* and the KEYWORD alternative, tried first, does not match the whole of it
LexerID(s) ==
    /\ Len(s) >= 1
    /\ s[1] \in Letters \cup {"_"}
    /\ \A i \in 2..Len(s) : s[i] \in Letters \cup Digits \cup {"_"}
    /\ s \notin Keywords

----------------------------------------------------------------------------
(* C11 *)

\* how many of the instructions 1..i of the list take a new temp
TempsTaken(list, i) ==
    Cardinality({j \in 1..i : list[j].op \in FilterOps \cup AggOps})

\* C11 as stated: the k-th instruction of the raw IR that takes a temp writes
\* _t<k>, and no name the lexer accepts as an identifier and the validator
\* declares is a generated temp name or begins with "_t".
C11_TempsIncreasingAndReserved ==
    /\ \A i \in 1..Len(ir) :
          ir[i].op \in FilterOps \cup AggOps
              => ir[i].result = PyStr(TempName(TempsTaken(ir, i)))
    /\ \A name \in DOMAIN symbols :
          LexerID(name) =>
              /\ ~IsTempCopy(IRInstruction("ASSIGN", PyStr(name), None, PyStr(name)))
              /\ \A k \in 1..(MaxStmts + 1) : name # TempName(k)

----------------------------------------------------------------------------
(* The interpreter on hand-written instruction lists: a driver appends     *)
(* instructions to a list and gives it to CodeGenerator().run.             *)

\* longest hand-written list of the first kind
MaxRunInstrs == 4
\* longest hand-written list of the second kind
MaxOpsInstrs == 2

Duplicates4 == <<10, 3, 10, 4>>

\* bindings, copies, outputs and reads of names that may be unbound or hold an int
RunPool ==
    {IRInstruction("LIST", PyList(<<1, 2, 3, 4, 10, 15>>), None, PyStr(nums)),
     IRInstruction("PRINT", PyStr(nums), None, None),
     IRInstruction("PRINT", PyStr(total), None, None),
     IRInstruction("PRINT", PyStr(t1), None, None),
     IRInstruction("ASSIGN", PyStr(nums), None, PyStr(total)),
     IRInstruction("ASSIGN", PyStr(total), None, PyStr(t1)),
     IRInstruction("FILTER_GT", PyStr(total), PyInt(5), PyStr(t1)),
     IRInstruction("AGG_SUM", PyStr(total), None, PyStr(total)),
     IRInstruction("NOP", None, None, None)}

\* three literals and every filter and aggregate over them
OpsPool ==
    {IRInstruction("LIST", PyList(lit), None, PyStr(nums)) :
        lit \in {<<1, 2, 3, 4, 10, 15>>, Duplicates4, <<>>}}
    \cup {IRInstruction("FILTER_GT", PyStr(nums), PyInt(5), PyStr(t1)),
          IRInstruction("FILTER_LT", PyStr(nums), PyInt(4), PyStr(t1)),
          IRInstruction("FILTER_EQ", PyStr(nums), PyInt(10), PyStr(t1)),
          IRInstruction("FILTER_BETWEEN", PyStr(nums), PyTuple(2, 10), PyStr(t1)),
          IRInstruction("FILTER_EVEN", PyStr(nums), None, PyStr(t1)),
          IRInstruction("FILTER_ODD", PyStr(nums), None, PyStr(t1)),
          IRInstruction("FILTER_GT", PyStr(nums), PyInt(5), PyStr(nums))}
    \cup {IRInstruction(op, PyStr(nums), None, PyStr(t1)) : op \in AggOps}

InitRun == pc \in {"crafting", "crafting_ops"} /\ Fresh

\* the driver appends one instruction of the first kind
Craft ==
    /\ pc = "crafting"
    /\ Len(ir) < MaxRunInstrs
    /\ \E instr \in RunPool : ir' = Append(ir, instr)
    /\ UNCHANGED <<pc, program, symbols, instructions, temp_counter, folded,
                   propagated, optimized, env, stdout, error, ip, raw_run, second_use>>

\* the driver appends one instruction of the second kind
CraftOps ==
    /\ pc = "crafting_ops"
    /\ Len(ir) < MaxOpsInstrs
    /\ \E instr \in OpsPool : ir' = Append(ir, instr)
    /\ UNCHANGED <<pc, program, symbols, instructions, temp_counter, folded,
                   propagated, optimized, env, stdout, error, ip, raw_run, second_use>>

\* CodeGenerator().run(ir) on the hand-written list: self.env.clear()
RunCrafted ==
    /\ pc \in {"crafting", "crafting_ops"}
    /\ pc' = "run_raw"
    /\ env' = <<>>
    /\ stdout' = <<>>
    /\ error' = None
    /\ ip' = 1
    /\ UNCHANGED <<program, symbols, instructions, temp_counter, ir, folded,
                   propagated, optimized, raw_run, second_use>>

NextRun ==
    \/ Craft
    \/ CraftOps
    \/ RunCrafted
    \/ Step

SpecRun == InitRun /\ [][NextRun]_vars

----------------------------------------------------------------------------
(* C12 *)

\* the interpreter took a step of the run of `ir`
RunStep == pc = "run_raw" /\ pc' = "run_raw"

\* C12: a step of run is taken only while no instruction has failed; it moves
\* to the next instruction unless the one it executed failed; the lines
\* already written stay, and it adds exactly one line when it executed an
\* output instruction that did not fail, and none otherwise.
C12_StopsAtFailureOneLinePerOutput ==
    [][RunStep =>
          /\ error = None
          /\ ip <= Len(ir)
          /\ ip' = (IF error' = None THEN ip + 1 ELSE ip)
          /\ Len(stdout') >= Len(stdout)
          /\ SubSeq(stdout', 1, Len(stdout)) = stdout
          /\ Len(stdout') - Len(stdout)
                = (IF ir[ip].op = "PRINT" /\ error' = None THEN 1 ELSE 0)
          /\ (ir[ip].op = "PRINT" /\ error' = None)
                => stdout'[Len(stdout')] = Render(env[ir[ip].arg1])]_vars

\* a run that failed after it had written a line, with instructions left
C12_FailedAfterOutputBeforeEnd ==
    /\ pc = "run_raw"
    /\ error # None
    /\ stdout # <<>>
    /\ ip < Len(ir)

----------------------------------------------------------------------------
(* C13 *)

\* the messages of the failures raised for a name that env does not hold
UnknownVariable ==
    {"PRINT of unknown variable", "ASSIGN from unknown variable",
     "FILTER from unknown variable", "AGG from unknown variable"}

\* the instruction about to be executed reads, as operand1, a name env does not hold
ReadsUnbound ==
    /\ pc = "run_raw"
    /\ error = None
    /\ ip <= Len(ir)
    /\ ir[ip].op \in {"PRINT", "ASSIGN"} \cup FilterOps \cup AggOps
    /\ IsStr(ir[ip].arg1)
    /\ ir[ip].arg1 \notin DOMAIN env

\* C13: executing an output, copy, filter or aggregate instruction whose
\* operand1 is a name env does not hold raises the unknown-variable failure
\* that quotes that name, and env is left as it was.
C13_UnboundOperandFails ==
    [][(ReadsUnbound /\ RunStep) =>
          /\ error' # None
          /\ error'.k = "RuntimeErrorMiniQuery"
          /\ error'.msg \in UnknownVariable
          /\ error'.what = ir[ip].arg1
          /\ env' = env]_vars

\* a copy from an unbound name has failed while env held another binding
C13_CopyFromUnboundFailed ==
    /\ pc = "run_raw"
    /\ error # None
    /\ ir[ip].op = "ASSIGN"
    /\ ir[ip].arg1 \notin DOMAIN env
    /\ env # <<>>

----------------------------------------------------------------------------
(* One CodeGenerator used twice: a driver writes two lists, runs the       *)
(* second on a CodeGenerator of its own, then runs the first and the       *)
(* second, in this order, on another CodeGenerator.                        *)

\* longest first list
MaxFirst == 2
\* longest second list
MaxSecond == 2

ReusePool ==
    {IRInstruction("LIST", PyList(<<1, 2, 3, 4, 10, 15>>), None, PyStr(nums)),
     IRInstruction("FILTER_GT", PyStr(nums), PyInt(5), PyStr(nums)),
     IRInstruction("ASSIGN", PyStr(nums), None, PyStr(total)),
     IRInstruction("PRINT", PyStr(nums), None, None),
     IRInstruction("PRINT", PyStr(total), None, None)}

\* a run that skips the clear
ClearSkipped(e) == e

\* self.env.clear()
Cleared(e) == <<>>

InitReuse == pc = "first" /\ Fresh

\* the driver appends one instruction to the first list
CraftFirst ==
    /\ pc = "first"
    /\ Len(ir) < MaxFirst
    /\ \E instr \in ReusePool : ir' = Append(ir, instr)
    /\ UNCHANGED <<pc, program, symbols, instructions, temp_counter, folded,
                   propagated, optimized, env, stdout, error, ip, raw_run, second_use>>

\* the driver appends one instruction to the second list
CraftSecond ==
    /\ pc \in {"first", "second"}
    /\ Len(second) < MaxSecond
    /\ \E instr \in ReusePool : second' = Append(second, instr)
    /\ pc' = "second"
    /\ UNCHANGED <<program, symbols, instructions, temp_counter, ir, folded,
                   propagated, optimized, env, stdout, error, ip, raw_run,
                   fresh_run, ir1, ir1_at_return>>

\* CodeGenerator().run(second)
RunFresh ==
    /\ pc \in {"first", "second"}
    /\ pc' = "run_fresh"
    /\ env' = Cleared(<<>>)
    /\ stdout' = <<>>
    /\ error' = None
    /\ ip' = 1
    /\ UNCHANGED <<program, symbols, instructions, temp_counter, ir, folded,
                   propagated, optimized, raw_run, second_use>>

\* cg = CodeGenerator(); cg.run(ir), once the run above is over
RunFirst ==
    /\ pc = "run_fresh"
    /\ Finished
    /\ fresh_run' = [stdout |-> stdout, error |-> error, env |-> env]
    /\ pc' = "run_raw"
    /\ env' = Cleared(<<>>)
    /\ stdout' = <<>>
    /\ error' = None
    /\ ip' = 1
    /\ UNCHANGED <<program, symbols, instructions, temp_counter, ir, folded,
                   propagated, optimized, raw_run, second, ir1, ir1_at_return>>

\* cg.run(second), once cg.run(ir) has returned or raised
RunSecond ==
    /\ pc = "run_raw"
    /\ Finished
    /\ raw_run' = [stdout |-> stdout, error |-> error, env |-> env]
    /\ pc' = "run_second"
    /\ env' = Cleared(env)
    /\ stdout' = <<>>
    /\ error' = None
    /\ ip' = 1
    /\ UNCHANGED <<program, symbols, instructions, temp_counter, ir, folded,
                   propagated, optimized, second_use>>

NextReuse ==
    \/ CraftFirst
    \/ CraftSecond
    \/ RunFresh
    \/ RunFirst
    \/ RunSecond
    \/ Step

SpecReuse == InitReuse /\ [][NextReuse]_vars

----------------------------------------------------------------------------
(* C14 *)

\* C14: when the run of the second list on the CodeGenerator that ran the
\* first one is over, its lines, its failure and its env are those of the
\* run of the second list on a CodeGenerator of its own.
C14_SecondRunAsOnFresh ==
    (pc = "run_second" /\ Finished) =>
        /\ stdout = fresh_run.stdout
        /\ error = fresh_run.error
        /\ env = fresh_run.env

\* the first run failed and left a binding that the second list reads
C14_SecondReadsNameLeftByFailedFirst ==
    /\ pc = "run_second"
    /\ Finished
    /\ raw_run.error # None
    /\ \E i \in 1..Len(second) : second[i].arg1 \in DOMAIN raw_run.env

----------------------------------------------------------------------------
(* C15 *)

\* the sum of a sequence, taken from its last element
RECURSIVE TotalOf(_)
TotalOf(seq) ==
    IF Len(seq) = 0 THEN 0
    ELSE TotalOf(SubSeq(seq, 1, Len(seq) - 1)) + seq[Len(seq)]

\* the instruction about to be executed is of one of the kinds `ops` and its
\* operand1 is a name that holds a list
ReadsList(ops) ==
    /\ pc = "run_raw"
    /\ error = None
    /\ ip <= Len(ir)
    /\ ir[ip].op \in ops
    /\ ir[ip].arg1 \in DOMAIN env
    /\ IsList(env[ir[ip].arg1])

\* C15: executing an aggregate on a list does not fail and binds the result
\* to: the sum (0 for the empty list, 35 for [1,2,3,4,10,15]); the length;
\* for max and min, None on the empty list and otherwise the element that no
\* element exceeds, respectively that exceeds none.
C15_AggregateValues ==
    [][(ReadsList(AggOps) /\ RunStep) =>
          LET op == ir[ip].op
              src == env[ir[ip].arg1].items
              value == env'[ir[ip].result]
          IN /\ error' = None
             /\ op = "AGG_SUM" => value = PyInt(TotalOf(src))
             /\ (op = "AGG_SUM" /\ src = Literal6) => value = PyInt(35)
             /\ op = "AGG_COUNT" => value = PyInt(Len(src))
             /\ (op \in {"AGG_MAX", "AGG_MIN"} /\ src = <<>>) => value = None
             /\ (op = "AGG_MAX" /\ src # <<>>) =>
                   /\ value.k = "int"
                   /\ value.n \in Elements(src)
                   /\ \A x \in Elements(src) : x <= value.n
             /\ (op = "AGG_MIN" /\ src # <<>>) =>
                   /\ value.k = "int"
                   /\ value.n \in Elements(src)
                   /\ \A x \in Elements(src) : value.n <= x]_vars

\* max over the empty list has been executed: no failure, the result holds None
C15_MaxOfEmptyIsNone ==
    /\ pc = "run_raw"
    /\ ip = 3
    /\ error = None
    /\ ir[1].op = "LIST" /\ ir[1].arg1 = PyList(<<>>)
    /\ ir[2].op = "AGG_MAX"
    /\ env[ir[2].result] = None

----------------------------------------------------------------------------
(* C16 *)

\* what a filter step binds its result to: the elements of the source that
\* satisfy the predicate, in the source's order, each as often as it occurs
FilterBindsSubsequence ==
    LET op == ir[ip].op
        src == env[ir[ip].arg1].items
        value == env'[ir[ip].result]
    IN /\ error' = None
       /\ IsList(value)
       /\ IsFiltered(value.items, op, ir[ip].arg2, src)
       /\ (op = "FILTER_GT" /\ ir[ip].arg2 = PyInt(5) /\ src = Literal6)
             => value = PyList(<<10, 15>>)

\* C16 as stated: a filter step binds the result to the filtered
\* sub-sequence and the source name holds afterwards what it held before.
C16_FilterLeavesSourceUnchanged ==
    [][(ReadsList(FilterOps) /\ RunStep) =>
          /\ FilterBindsSubsequence
          /\ env'[ir[ip].arg1] = env[ir[ip].arg1]]_vars

\* C16 amended: a filter step binds the result to the filtered sub-sequence;
\* the source name holds afterwards what it held before unless it is also
\* the result name, and every other binding is as it was.
C16_FilterLeavesOtherNamesUnchanged ==
    [][(ReadsList(FilterOps) /\ RunStep) =>
          /\ FilterBindsSubsequence
          /\ ir[ip].result # ir[ip].arg1 => env'[ir[ip].arg1] = env[ir[ip].arg1]
          /\ DOMAIN env' = DOMAIN env \cup {ir[ip].result}
          /\ \A name \in DOMAIN env :
                name # ir[ip].result => env'[name] = env[name]]_vars

\* a filter whose result name is its source name has run on a list with a
\* repeated element: the name now holds the filtered list, repeats kept
C16_FilterIntoItsSource ==
    /\ pc = "run_raw"
    /\ ip = 3
    /\ error = None
    /\ ir[1].op = "LIST" /\ ir[1].arg1 = PyList(Duplicates4)
    /\ ir[2].op \in FilterOps /\ ir[2].result = ir[2].arg1
    /\ env[ir[2].result] = PyList(<<10, 10>>)

----------------------------------------------------------------------------
(* One IRGenerator used twice: a driver parses and checks a program, calls *)
(* generate and keeps what it returned, then parses and checks another     *)
(* program and calls generate on the same IRGenerator.                     *)

\* longest program of this driver
MaxFewStmts == 3

FewStatements ==
    {DataDeclarationNode(nums, <<1, 2, 3, 4, 10, 15>>),
     AssignmentNode(total, AggregationNode("sum", nums)),
     AssignmentNode(nums, SelectQueryNode(<<">", 5>>, nums)),
     FilterQueryNode("even", nums),
     PrintNode(nums),
     PrintNode(total)}

\* `return self.instructions`: the caller gets the generator's list itself
ReturnedList == [k |-> "ref", to |-> "IRGenerator.instructions"]

\* what a returned list holds now
Contents(list) == IF list.k = "ref" THEN instructions ELSE list.items

InitGen == pc = "parse_few" /\ Fresh

\* Parser.parse appends one statement and SemanticAnalyzer._check_statement
\* checks it
AnalyzeFew ==
    /\ pc = "parse_few"
    /\ Len(program) < MaxFewStmts
    /\ \E stmt \in FewStatements :
          LET r == _check_statement(symbols, stmt) IN
          IF r.ok
          THEN /\ program' = Append(program, stmt)
               /\ symbols' = r.symbols
               /\ pc' = pc
          ELSE /\ pc' = "rejected"
               /\ UNCHANGED <<program, symbols>>
    /\ UNCHANGED <<instructions, temp_counter, ir, folded, propagated, optimized,
                   env, stdout, error, ip, raw_run, second_use>>

\* ir1 = irgen.generate(ast); the driver goes on to the next program
GenerateFirst ==
    /\ pc = "parse_few"
    /\ ir1 = None
    /\ LET g == generate([instructions |-> instructions,
                           temp_counter |-> temp_counter], program) IN
          /\ instructions' = g.instructions
          /\ temp_counter' = g.temp_counter
          /\ ir1_at_return' = g.instructions
    /\ ir1' = ReturnedList
    /\ program' = <<>>
    /\ symbols' = <<>>
    /\ UNCHANGED <<pc, ir, folded, propagated, optimized, env, stdout, error, ip,
                   raw_run, second, fresh_run>>

\* irgen.generate(ast) again, on the same IRGenerator
GenerateAgain ==
    /\ pc = "parse_few"
    /\ ir1 # None
    /\ LET g == generate([instructions |-> instructions,
                           temp_counter |-> temp_counter], program) IN
          /\ instructions' = g.instructions
          /\ temp_counter' = g.temp_counter
    /\ pc' = "generated_again"
    /\ UNCHANGED <<program, symbols, ir, folded, propagated, optimized, env,
                   stdout, error, ip, raw_run, second_use>>

NextGen ==
    \/ AnalyzeFew
    \/ GenerateFirst
    \/ GenerateAgain

SpecGen == InitGen /\ [][NextGen]_vars

----------------------------------------------------------------------------
(* C17 *)

\* the instructions of the list that take a new temp
TakesTemp(list) == {i \in 1..Len(list) : list[i].op \in FilterOps \cup AggOps}

\* C17: what the second generate call of an IRGenerator leaves in its list is
\* what a new IRGenerator produces for the same program, and its temps are
\* numbered from _t1 in the order of the instructions.
C17_GenerateForgetsHistory ==
    pc = "generated_again" =>
        /\ instructions = generate(IRGenerator, program).instructions
        /\ \A i \in TakesTemp(instructions) :
              instructions[i].result = PyStr(TempName(TempsTaken(instructions, i)))

\* both the earlier program and the later one took temps, and they differ
C17_BothProgramsTookTemps ==
    /\ pc = "generated_again"
    /\ TakesTemp(ir1_at_return) # {}
    /\ TakesTemp(instructions) # {}
    /\ instructions # ir1_at_return

----------------------------------------------------------------------------
(* C20 *)

\* C20 as stated: the list an earlier generate call returned holds what it
\* held when that call returned, whatever the generator has done since.
C20_ReturnedListKeepsItsContents ==
    ir1 # None => Contents(ir1) = ir1_at_return

----------------------------------------------------------------------------
(* C18 *)

\* C18 as stated: when every declared name is an identifier of the lexer, the
\* run of the raw IR of a program the validator accepted raises no failure.
C18_RawRunNeverFails ==
    (pc = "run_raw" /\ \A name \in DOMAIN symbols : LexerID(name)) => error = None

----------------------------------------------------------------------------
(* C19 *)

\* C19 as stated, in its consequence for the result: when the run of the raw
\* IR has just executed a filter that constant_folding replaced by a
\* list-materialize, the literal of that list-materialize is the value the
\* run bound the filter's result to.  Stated for programs with no identifier
\* beginning with "_t".
C19_FoldedLiteralIsTheRunValue ==
    (/\ PlainNames
     /\ pc = "run_raw"
     /\ error = None
     /\ ip > 1
     /\ ir[ip - 1].op \in FilterOps
     /\ folded[ip - 1].op = "LIST")
        => folded[ip - 1].arg1 = env[ir[ip - 1].result]

====
